---------------------------- MODULE Spec2Model ----------------------------
(***************************************************************************)
(* Model of q3-client (src/q3-client/src/q3_client.rs): the getstatus     *)
(* exchange and reply decoding of Q3Client::get_status, and the colour    *)
(* code stripper string_utils::sanitize_string.                           *)
(*                                                                         *)
(* Text is a sequence of characters; a character is a one-symbol string.  *)
(* A datagram is a sequence of bytes; an ASCII byte is written as the     *)
(* character it encodes, the other bytes as "0xC3", "0xA9", "0xFF".       *)
(***************************************************************************)
EXTENDS Integers, Sequences, FiniteSets, TLC

VARIABLES
    call,            \* entry point being executed: "idle", "get_status", "sanitize_string"
    pc,              \* position inside the entry point
    calls,           \* socket operations performed so far, each with its outcome
    response,        \* get_status: the decoded reply text (line 82)
    result,          \* "none", "Ok", "Err" or "panic"
    error,           \* get_status: the socket operation whose error was returned
    status,          \* get_status: the ServerStatus returned with Ok
    orig_string,     \* sanitize_string: the argument
    i,               \* sanitize_string: the loop index
    cleaned_string   \* sanitize_string: the output built so far

vars == <<call, pc, calls, response, result, error, status,
          orig_string, i, cleaned_string>>

-----------------------------------------------------------------------------
(* Bounds of the model *)

\* longest enumerated argument of sanitize_string, in characters
MaxLen == 4

\* most player lines in an enumerated reply
MaxPlayers == 2

-----------------------------------------------------------------------------
(* Characters and bytes *)

NL == "LF"
BS == "BACKSLASH"
QT == "QUOTE"
CARET == "^"
EACUTE == "U+00E9"
REPLACEMENT == "U+FFFD"
None == "None"

\* number of bytes of a character in UTF-8
Utf8Len(c) == IF c = EACUTE THEN 2 ELSE IF c = REPLACEMENT THEN 3 ELSE 1

RECURSIVE StrLen(_)
\* str::len: the length of a string in bytes
StrLen(s) == IF s = <<>> THEN 0 ELSE Utf8Len(Head(s)) + StrLen(Tail(s))

\* s.chars().nth(n): the n-th character (from 0), None past the end
Nth(s, n) == IF n < Len(s) THEN s[n + 1] ELSE None

RECURSIVE from_utf8_lossy(_)
\* String::from_utf8_lossy: a valid two-byte sequence is one character, every
\* byte that is part of no valid sequence becomes U+FFFD
from_utf8_lossy(b) ==
    IF b = <<>> THEN <<>>
    ELSE IF Head(b) = "0xC3" /\ Len(b) >= 2 /\ b[2] = "0xA9"
         THEN <<EACUTE>> \o from_utf8_lossy(SubSeq(b, 3, Len(b)))
    ELSE IF Head(b) \in {"0xC3", "0xA9", "0xFF"}
         THEN <<REPLACEMENT>> \o from_utf8_lossy(Tail(b))
    ELSE <<Head(b)>> \o from_utf8_lossy(Tail(b))

RECURSIVE Split(_, _)
\* str::split(d).collect(): the pieces between the delimiters; never empty
Split(s, d) ==
    IF \A p \in 1..Len(s) : s[p] # d THEN <<s>>
    ELSE LET p == CHOOSE q \in 1..Len(s) :
                      s[q] = d /\ \A r \in 1..(q - 1) : s[r] # d
         IN  <<SubSeq(s, 1, p - 1)>> \o Split(SubSeq(s, p + 1, Len(s)), d)

-----------------------------------------------------------------------------
(* string_utils::sanitize_string *)

\* SanStep with the doubled caret advancing past both carets
SanStepSkipPair(s, n, out) ==
    LET c == Nth(s, n) IN
    IF c = None THEN [panic |-> TRUE, i |-> n, out |-> out]
    ELSE IF c = CARET
         THEN IF Nth(s, n + 1) = CARET
              THEN [panic |-> FALSE, i |-> n + 2, out |-> Append(out, CARET)]
              ELSE [panic |-> FALSE, i |-> n + 2, out |-> out]
    ELSE [panic |-> FALSE, i |-> n + 1, out |-> Append(out, c)]

\* SanStep with the escape advancing past the caret only
SanStepKeepCode(s, n, out) ==
    LET c == Nth(s, n) IN
    IF c = None THEN [panic |-> TRUE, i |-> n, out |-> out]
    ELSE IF c = CARET
         THEN IF Nth(s, n + 1) = CARET
              THEN [panic |-> FALSE, i |-> n + 1, out |-> Append(out, CARET)]
              ELSE [panic |-> FALSE, i |-> n + 1, out |-> out]
    ELSE [panic |-> FALSE, i |-> n + 1, out |-> Append(out, c)]

\* SanStep with a caret copied whenever no escape code follows it
SanStepKeepLastCaret(s, n, out) ==
    LET c == Nth(s, n) IN
    IF c = None THEN [panic |-> TRUE, i |-> n, out |-> out]
    ELSE IF c = CARET
         THEN IF Nth(s, n + 1) \in {CARET, None}
              THEN [panic |-> FALSE, i |-> n + 1, out |-> Append(out, CARET)]
              ELSE [panic |-> FALSE, i |-> n + 2, out |-> out]
    ELSE [panic |-> FALSE, i |-> n + 1, out |-> Append(out, c)]

\* one iteration of the while loop, entered with i < orig_string.len()
SanStep(s, n, out) ==
    LET c == Nth(s, n) IN
    IF c = None THEN [panic |-> TRUE, i |-> n, out |-> out]
    ELSE IF c = CARET
         THEN IF Nth(s, n + 1) = CARET
              THEN [panic |-> FALSE, i |-> n + 1, out |-> Append(out, CARET)]
              ELSE [panic |-> FALSE, i |-> n + 2, out |-> out]
    ELSE [panic |-> FALSE, i |-> n + 1, out |-> Append(out, c)]

RECURSIVE SanLoop(_, _, _)
SanLoop(s, n, out) ==
    IF n < StrLen(s)
    THEN LET r == SanStep(s, n, out) IN
         IF r.panic THEN r ELSE SanLoop(s, r.i, r.out)
    ELSE [panic |-> FALSE, i |-> n, out |-> out]

\* the whole call: [panic, out]
sanitize_string(s) == SanLoop(s, 0, <<>>)

-----------------------------------------------------------------------------
(* Decoding in Q3Client::get_status *)

\* HashMap::insert on a map held as a set of <<key, value>> pairs
Insert(m, k, v) == {p \in m : p[1] # k} \cup {<<k, v>>}

RECURSIVE KeysLoop(_, _, _)
\* the loop over &keys[1..]
KeysLoop(vals, current_key, m) ==
    IF vals = <<>> THEN m
    ELSE IF current_key = <<>>
         THEN KeysLoop(Tail(vals), Head(vals), m)
         ELSE KeysLoop(Tail(vals), <<>>, Insert(m, current_key, Head(vals)))

\* rows[1].split("\\").skip(1).collect()
KeyTokens(row) == Tail(Split(row, BS))

\* Q3Client::parse_player_name: [panic, name]
parse_player_name(get_status_player) ==
    LET parts == Split(get_status_player, QT) IN
    IF Len(parts) < 2 THEN [panic |-> TRUE, name |-> <<>>]
    ELSE [panic |-> FALSE, name |-> parts[2]]

\* rows[2..rows.len() - 1]
PlayerRows(rows) == SubSeq(rows, 3, Len(rows) - 1)

NoStatus == [keys |-> {}, players |-> <<>>]

\* lines 84-111 on the decoded text: [kind, at, status]
Decoded(text) ==
    LET rows == Split(text, NL) IN
    IF Len(rows) < 2 THEN [kind |-> "panic", at |-> "rows[1]", status |-> NoStatus]
    ELSE
    LET keys == KeyTokens(rows[2]) IN
    IF Len(keys) < 2 THEN [kind |-> "panic", at |-> "keys[1]", status |-> NoStatus]
    ELSE
    LET map == KeysLoop(Tail(keys), keys[2], {}) IN
    IF Len(rows) - 1 < 2
    THEN [kind |-> "panic", at |-> "rows[2..rows.len() - 1]", status |-> NoStatus]
    ELSE
    LET prows == PlayerRows(rows)
        names == [j \in 1..Len(prows) |-> parse_player_name(prows[j])]
    IN
    IF \E j \in 1..Len(names) : names[j].panic
    THEN [kind |-> "panic", at |-> "parse_player_name", status |-> NoStatus]
    ELSE
    LET cleaned == [j \in 1..Len(names) |-> sanitize_string(names[j].name)] IN
    IF \E j \in 1..Len(names) : cleaned[j].panic
    THEN [kind |-> "panic", at |-> "sanitize_string", status |-> NoStatus]
    ELSE [kind |-> "Ok", at |-> "",
          status |-> [keys |-> map,
                      players |-> [j \in 1..Len(names) |->
                                     [name |-> names[j].name,
                                      clean_name |-> cleaned[j].out]]]]

-----------------------------------------------------------------------------
(* Inputs *)

RECURSIVE Join(_)
\* the lines joined with a newline between them
Join(lines) ==
    IF Len(lines) = 1 THEN lines[1]
    ELSE lines[1] \o <<NL>> \o Join(Tail(lines))

\* first line of a reply: the out-of-band marker and the status word
StatusLines == { <<"0xFF", "s">> }

\* second line of a reply, well formed and not
KeyLines ==
    { <<BS, "k", BS, "v">>,
      <<BS, "k", BS, "v", BS, "g", BS, "0">>,
      <<BS, "k", BS, "v", BS, "g">>,
      <<BS, "k">>,
      <<"k", BS, "v">>,
      <<>> }

\* player lines, well formed and not
PlayerLines ==
    { <<QT, "a", QT>>,
      <<"5", QT, CARET, "1", "a", QT, "7">>,
      <<QT, "a", CARET, QT>>,
      <<QT, "0xC3", "0xA9", QT>>,
      <<QT, QT>>,
      <<QT, "a">>,
      <<"a">> }

\* last line of a reply
Trailers == { <<>>, <<QT, "b", QT>> }

\* the datagrams recv_from may deliver
Replies ==
    { Join(<<l0>>) : l0 \in StatusLines }
    \cup { Join(<<l0, kv>>) : l0 \in StatusLines, kv \in KeyLines }
    \cup UNION { { Join(<<l0, kv>> \o ps \o <<t>>) :
                     l0 \in StatusLines, kv \in KeyLines,
                     ps \in [1..n -> PlayerLines], t \in Trailers } :
                 n \in 0..MaxPlayers }

SanAlphabet == { CARET, "7", "N", EACUTE }

\* the arguments of the unit tests
Test1 == <<"^", "1", "P", "l", "a", "y", "e", "r", "^", "7", "N", "a", "m", "e">>
Test2 == <<"^", "1", "P", "l", "a", "y", "e", "r", "^", "^", "7", "N", "a", "m", "e">>
Test3 == <<"^", "1", "P", "l", "a", "y", "e", "r", "^", "^", "^", "7", "N", "a", "m", "e">>
Test4 == <<"P", "l", "a", "y", "e", "r", "N", "a", "m", "e">>

TestStrings == { Test1, Test2, Test3, Test4 }

\* the arguments sanitize_string is called with
SanInputs ==
    UNION { [1..n -> SanAlphabet] : n \in 0..MaxLen } \cup TestStrings

-----------------------------------------------------------------------------
(* The state machine *)

TransportOrder ==
    <<"bind", "set_read_timeout", "set_write_timeout", "send_to", "recv_from">>

Init ==
    /\ call = "idle"
    /\ pc = "idle"
    /\ calls = <<>>
    /\ response = <<>>
    /\ result = "none"
    /\ error = "none"
    /\ status = NoStatus
    /\ orig_string = <<>>
    /\ i = 0
    /\ cleaned_string = <<>>

\* main: Q3Client::new(host).get_status() is entered
CallGetStatus ==
    /\ call = "idle"
    /\ call' = "get_status"
    /\ pc' = "bind"
    /\ UNCHANGED <<calls, response, result, error, status,
                   orig_string, i, cleaned_string>>

\* one socket operation of get_status: it succeeds and control moves on, or it
\* fails and get_status returns the error
SocketOp(op, next) ==
    /\ call = "get_status"
    /\ pc = op
    /\ \E ok \in BOOLEAN :
         /\ calls' = Append(calls, [op |-> op, ok |-> ok])
         /\ IF ok
            THEN /\ pc' = next
                 /\ UNCHANGED <<result, error>>
            ELSE /\ pc' = "done"
                 /\ result' = "Err"
                 /\ error' = op
    /\ UNCHANGED <<call, response, status, orig_string, i, cleaned_string>>

Bind == SocketOp("bind", "set_read_timeout")

SetReadTimeout == SocketOp("set_read_timeout", "set_write_timeout")

SetWriteTimeout == SocketOp("set_write_timeout", "send_to")

\* SendTo that tries again after a failed send
SendToRetry ==
    /\ call = "get_status"
    /\ pc = "send_to"
    /\ \E ok \in BOOLEAN :
         /\ calls' = Append(calls, [op |-> "send_to", ok |-> ok])
         /\ pc' = IF ok THEN "recv_from" ELSE "send_to"
    /\ UNCHANGED <<call, response, result, error, status,
                   orig_string, i, cleaned_string>>

SendTo == SocketOp("send_to", "recv_from")

\* recv_from and the lossy decoding of the bytes read
RecvFrom ==
    /\ call = "get_status"
    /\ pc = "recv_from"
    /\ \/ /\ calls' = Append(calls, [op |-> "recv_from", ok |-> FALSE])
          /\ pc' = "done"
          /\ result' = "Err"
          /\ error' = "recv_from"
          /\ UNCHANGED response
       \/ \E buf \in Replies :
            /\ calls' = Append(calls, [op |-> "recv_from", ok |-> TRUE])
            /\ response' = from_utf8_lossy(buf)
            /\ pc' = "decode"
            /\ UNCHANGED <<result, error>>
    /\ UNCHANGED <<call, status, orig_string, i, cleaned_string>>

\* lines 84-111: the reply is decoded and get_status returns, or panics
Decode ==
    /\ call = "get_status"
    /\ pc = "decode"
    /\ LET d == Decoded(response) IN
         /\ result' = d.kind
         /\ status' = d.status
    /\ pc' = "done"
    /\ UNCHANGED <<call, calls, response, error, orig_string, i, cleaned_string>>

\* sanitize_string is called on its own, as the unit tests do
CallSanitizeString ==
    /\ call = "idle"
    /\ \E s \in SanInputs : orig_string' = s
    /\ call' = "sanitize_string"
    /\ pc' = "loop"
    /\ i' = 0
    /\ cleaned_string' = <<>>
    /\ UNCHANGED <<calls, response, result, error, status>>

\* one iteration of the while loop
SanitizeStep ==
    /\ call = "sanitize_string"
    /\ pc = "loop"
    /\ i < StrLen(orig_string)
    /\ LET r == SanStep(orig_string, i, cleaned_string) IN
         IF r.panic
         THEN /\ pc' = "done"
              /\ result' = "panic"
              /\ UNCHANGED <<i, cleaned_string>>
         ELSE /\ i' = r.i
              /\ cleaned_string' = r.out
              /\ UNCHANGED <<pc, result>>
    /\ UNCHANGED <<call, calls, response, error, status, orig_string>>

\* the loop condition fails: return cleaned_string
SanitizeReturn ==
    /\ call = "sanitize_string"
    /\ pc = "loop"
    /\ ~(i < StrLen(orig_string))
    /\ pc' = "done"
    /\ result' = "Ok"
    /\ UNCHANGED <<call, calls, response, error, status,
                   orig_string, i, cleaned_string>>

Next ==
    \/ CallGetStatus
    \/ Bind
    \/ SetReadTimeout
    \/ SetWriteTimeout
    \/ SendTo
    \/ RecvFrom
    \/ Decode
    \/ CallSanitizeString
    \/ SanitizeStep
    \/ SanitizeReturn

Spec == Init /\ [][Next]_vars

-----------------------------------------------------------------------------
(* Properties of sanitize_string *)

SanDone == call = "sanitize_string" /\ pc = "done"

SingleByte(s) == \A p \in 1..Len(s) : Utf8Len(s[p]) = 1

NoCaret(s) == \A p \in 1..Len(s) : s[p] # CARET

RECURSIVE StripTrailingCarets(_)
StripTrailingCarets(s) ==
    IF s # <<>> /\ s[Len(s)] = CARET
    THEN StripTrailingCarets(SubSeq(s, 1, Len(s) - 1))
    ELSE s

\* length of the run of carets s starts with
RunLen(s) ==
    CHOOSE k \in 0..Len(s) :
        /\ \A p \in 1..k : s[p] = CARET
        /\ k = Len(s) \/ s[k + 1] # CARET

Carets(k) == [j \in 1..k |-> CARET]

RECURSIVE RunExpected(_)
\* the output the run rule describes, for a string that does not end in a caret:
\* a run of k carets and the character after it become k - 1 carets
RunExpected(s) ==
    IF s = <<>> THEN <<>>
    ELSE IF Head(s) # CARET THEN <<Head(s)>> \o RunExpected(Tail(s))
    ELSE LET k == RunLen(s) IN
         IF k = Len(s) THEN <<>>
         ELSE Carets(k - 1) \o RunExpected(SubSeq(s, k + 2, Len(s)))

\* the outputs the unit tests expect
PlayerName == <<"P", "l", "a", "y", "e", "r", "N", "a", "m", "e">>
Player1Name == <<"P", "l", "a", "y", "e", "r", "^", "N", "a", "m", "e">>
Player2Name == <<"P", "l", "a", "y", "e", "r", "^", "^", "N", "a", "m", "e">>

\* C5: on a string of single-byte characters sanitize_string returns, and its
\* output is what the run rule gives: every run of k carets followed by a
\* non-caret c becomes k - 1 carets with c dropped, every other non-caret is
\* copied in order (a run that ends the string adds only to the end of the
\* output); the three test strings give PlayerName, Player^Name, Player^^Name.
C5_CaretRuns ==
    (SanDone /\ SingleByte(orig_string)) =>
        LET e == RunExpected(StripTrailingCarets(orig_string)) IN
        /\ result = "Ok"
        /\ Len(cleaned_string) >= Len(e)
        /\ SubSeq(cleaned_string, 1, Len(e)) = e
        /\ StripTrailingCarets(orig_string) = orig_string => cleaned_string = e
        /\ orig_string = Test1 => cleaned_string = PlayerName
        /\ orig_string = Test2 => cleaned_string = Player1Name
        /\ orig_string = Test3 => cleaned_string = Player2Name

C5_Witness ==
    /\ SanDone
    /\ orig_string = Test3
    /\ cleaned_string = Player2Name

\* the loop is at a caret that is followed by a caret
AtPair ==
    /\ call = "sanitize_string"
    /\ pc = "loop"
    /\ i < StrLen(orig_string)
    /\ Nth(orig_string, i) = CARET
    /\ Nth(orig_string, i + 1) = CARET

\* the loop is at the second caret of a pair it has just emitted a caret for,
\* and a non-caret character follows
AtSecondOfPair ==
    /\ call = "sanitize_string"
    /\ pc = "loop"
    /\ i >= 1
    /\ i < StrLen(orig_string)
    /\ Nth(orig_string, i - 1) = CARET
    /\ Nth(orig_string, i) = CARET
    /\ Nth(orig_string, i + 1) \notin {CARET, None}

\* C6 as stated: at a caret followed by a caret, sanitize_string emits a
\* single caret and advances past both carets.
C6_AdvancesPastBoth ==
    [][AtPair => (cleaned_string' = Append(cleaned_string, CARET) /\ i' = i + 2)]_vars

\* C6 amended: at a caret followed by a caret, sanitize_string emits a single
\* caret and advances past the first caret only; the second caret is scanned
\* next and starts an escape of its own, so a non-caret character directly
\* after the pair is dropped as its code and is not copied.
C6_AdvancesPastFirst ==
    [][ /\ AtPair => (cleaned_string' = Append(cleaned_string, CARET) /\ i' = i + 1)
        /\ AtSecondOfPair => (cleaned_string' = cleaned_string /\ i' = i + 2)
      ]_vars

C6_Witness ==
    /\ AtSecondOfPair
    /\ cleaned_string # <<>>
    /\ cleaned_string[Len(cleaned_string)] = CARET

\* C7: for every string without a caret, multi-byte characters included,
\* sanitize_string returns the string unchanged.
C7_NoCaretUnchanged ==
    (SanDone /\ NoCaret(orig_string)) =>
        (result = "Ok" /\ cleaned_string = orig_string)

\* the loop is at a caret that is the last character of the input
AtLastCaret ==
    /\ call = "sanitize_string"
    /\ pc = "loop"
    /\ i = Len(orig_string) - 1
    /\ Nth(orig_string, i) = CARET

\* C10: the output of sanitize_string never has more characters than its
\* input, so in a returned ServerStatus no clean_name is longer than its
\* name; a caret that is the last character of the input is consumed and
\* emits nothing.
C10_OutputNoLonger ==
    /\ [](/\ call = "sanitize_string" => Len(cleaned_string) <= Len(orig_string)
          /\ (call = "get_status" /\ result = "Ok") =>
               \A j \in 1..Len(status.players) :
                   Len(status.players[j].clean_name) <= Len(status.players[j].name))
    /\ [][AtLastCaret => (cleaned_string' = cleaned_string /\ i' >= Len(orig_string))]_vars

C10_Witness ==
    /\ SanDone
    /\ result = "Ok"
    /\ Len(orig_string) >= 2
    /\ orig_string[Len(orig_string)] = CARET
    /\ cleaned_string # <<>>
    /\ Len(cleaned_string) < Len(orig_string)

-----------------------------------------------------------------------------
(* Properties of get_status *)

GetStatusDone == call = "get_status" /\ pc = "done"

Rows == Split(response, NL)

\* the row is \k1\v1...\kn\vn with n >= 1, no empty token and distinct keys
KeyRowWellFormed(row) ==
    LET t == Split(row, BS) IN
    /\ Len(t) >= 3
    /\ Len(t) % 2 = 1
    /\ t[1] = <<>>
    /\ \A j \in 2..Len(t) : t[j] # <<>>
    /\ \A a, b \in 1..((Len(t) - 1) \div 2) : a # b => t[2 * a] # t[2 * b]

\* the mapping {k1 -> v1, ..., kn -> vn} of such a row
PairedKeys(row) ==
    LET t == Split(row, BS) IN
    { <<t[2 * j], t[2 * j + 1]>> : j \in 1..((Len(t) - 1) \div 2) }

QuoteCount(row) == Len(Split(row, QT)) - 1

\* C1: when line 1 of the reply is \k1\v1...\kn\vn, the ServerStatus that
\* get_status returns has keys exactly {k1 -> v1, ..., kn -> vn}.
C1_KeysPaired ==
    (GetStatusDone /\ result = "Ok" /\ KeyRowWellFormed(Rows[2])) =>
        status.keys = PairedKeys(Rows[2])

\* C2: for a reply of L >= 3 lines whose player lines each hold two quotes
\* (and whose line 1 is a well-formed key line), get_status returns L - 3
\* players, the i-th named by the text between the first two quotes of line
\* 2 + i.
C2_PlayersFromLines ==
    (/\ GetStatusDone
     /\ Len(Rows) >= 3
     /\ KeyRowWellFormed(Rows[2])
     /\ \A j \in 3..(Len(Rows) - 1) : QuoteCount(Rows[j]) >= 2) =>
        /\ result = "Ok"
        /\ Len(status.players) = Len(Rows) - 3
        /\ \A j \in 1..(Len(Rows) - 3) :
               status.players[j].name = Split(Rows[j + 2], QT)[2]

\* the reply has fewer than 2 lines, or line 1 has no key token
Malformed ==
    \/ Len(Rows) < 2
    \/ \A j \in 2..Len(Split(Rows[2], BS)) : Split(Rows[2], BS)[j] = <<>>

\* C3: on a malformed reply get_status returns a decode error; it does not
\* panic and returns no ServerStatus.
C3_MalformedIsError ==
    (GetStatusDone /\ calls # <<>> /\ calls[Len(calls)] = [op |-> "recv_from", ok |-> TRUE]
       /\ Malformed) =>
        result = "Err"

\* C4: the socket operations of a call are a prefix of bind, set_read_timeout,
\* set_write_timeout, send_to, recv_from, each at most once; only the last
\* one can have failed, and then get_status has returned its error; decoding
\* is reached only after a successful recv_from.
C4_TransportOrder ==
    call = "get_status" =>
        /\ Len(calls) <= Len(TransportOrder)
        /\ \A j \in 1..Len(calls) : calls[j].op = TransportOrder[j]
        /\ \A j \in 1..(Len(calls) - 1) : calls[j].ok
        /\ (calls # <<>> /\ ~calls[Len(calls)].ok) =>
               (pc = "done" /\ result = "Err" /\ error = calls[Len(calls)].op)
        /\ result = "Err" => (calls # <<>> /\ ~calls[Len(calls)].ok)
        /\ (pc = "decode" \/ result \in {"Ok", "panic"}) =>
               (Len(calls) = Len(TransportOrder) /\ calls[Len(calls)].ok)

C4_Witness ==
    /\ GetStatusDone
    /\ result = "Err"
    /\ error = "send_to"
    /\ Len(calls) = 4

\* C8: when a player line of the reply holds fewer than two quotes,
\* get_status returns a decode error.
C8_UnquotedLineIsError ==
    (/\ GetStatusDone
     /\ Len(Rows) >= 3
     /\ KeyRowWellFormed(Rows[2])
     /\ \E j \in 3..(Len(Rows) - 1) : QuoteCount(Rows[j]) < 2) =>
        result = "Err"

\* C9: every Player of a returned ServerStatus has a non-empty name.
C9_NamesNonEmpty ==
    (GetStatusDone /\ result = "Ok") =>
        \A j \in 1..Len(status.players) : status.players[j].name # <<>>

=============================================================================
